---- MODULE Spec2Model ----
(***************************************************************************)
(* Model of the widget publishing pipeline: the publish orchestrator       *)
(* (scripts/publish), the oras push wrapper (lib/oras.ts) and the schema   *)
(* layer (lib/schema.ts).                                                  *)
(*                                                                         *)
(* Strings are sequences of UTF-16 code units, so that regular-expression  *)
(* validation, template concatenation, emptiness and collation are         *)
(* computed on the characters rather than assumed.                         *)
(***************************************************************************)
EXTENDS Integers, Sequences, FiniteSets, TLC

\* ------------------------------------------------------------------ bounds

\* Longest publish plan (number of non-blank lines in the plan file).
MaxPlan == 2

\* ------------------------------------------------------------ characters

IsDigit(c) == c \in 48..57
IsUpper(c) == c \in 65..90
IsLower(c) == c \in 97..122
IsAlnumHyphen(c) == IsDigit(c) \/ IsUpper(c) \/ IsLower(c) \/ c = 45
IsHex(c) == IsDigit(c) \/ c \in 65..70 \/ c \in 97..102

RECURSIVE Concat(_)
\* Concatenation of a sequence of strings (a template literal).
Concat(parts) ==
  IF parts = <<>> THEN <<>> ELSE Head(parts) \o Concat(Tail(parts))

\* Index of the first occurrence of c in s, 0 when there is none.
IndexOf(s, c) ==
  IF \E i \in 1..Len(s) : s[i] = c
  THEN CHOOSE i \in 1..Len(s) : s[i] = c /\ \A j \in 1..(i - 1) : s[j] # c
  ELSE 0

RECURSIVE Split(_, _)
\* s.split(c): the pieces of s between occurrences of c.
Split(s, c) ==
  LET i == IndexOf(s, c)
  IN  IF i = 0 THEN <<s>>
      ELSE <<SubSeq(s, 1, i - 1)>> \o Split(SubSeq(s, i + 1, Len(s)), c)

\* -------------------------------------------------------- schema: regexes

\* (0|[1-9]\d*)
NumericId(s) ==
  /\ Len(s) >= 1
  /\ \A i \in 1..Len(s) : IsDigit(s[i])
  /\ (Len(s) = 1 \/ s[1] # 48)

\* (?:0|[1-9]\d*|\d*[a-zA-Z-][0-9a-zA-Z-]*)
PrereleaseId(s) ==
  \/ NumericId(s)
  \/ /\ Len(s) >= 1
     /\ \A i \in 1..Len(s) : IsAlnumHyphen(s[i])
     /\ \E i \in 1..Len(s) : ~IsDigit(s[i])

\* [0-9a-zA-Z-]+
BuildId(s) == Len(s) >= 1 /\ \A i \in 1..Len(s) : IsAlnumHyphen(s[i])

\* SEMVER_REGEX: core, optional -prerelease, optional +build.
SEMVER_REGEX(s) ==
  LET plus  == IndexOf(s, 43)
      front == IF plus = 0 THEN s ELSE SubSeq(s, 1, plus - 1)
      build == IF plus = 0 THEN <<>> ELSE SubSeq(s, plus + 1, Len(s))
      dash  == IndexOf(front, 45)
      core  == IF dash = 0 THEN front ELSE SubSeq(front, 1, dash - 1)
      pre   == IF dash = 0 THEN <<>> ELSE SubSeq(front, dash + 1, Len(front))
      nums  == Split(core, 46)
      pres  == Split(pre, 46)
      blds  == Split(build, 46)
  IN  /\ Len(nums) = 3
      /\ \A i \in 1..3 : NumericId(nums[i])
      /\ (dash # 0 => \A i \in 1..Len(pres) : PrereleaseId(pres[i]))
      /\ (plus # 0 => \A i \in 1..Len(blds) : BuildId(blds[i]))

\* SAFE_ID_REGEX = /^[a-zA-Z0-9-_]+$/
SAFE_ID_REGEX(s) ==
  Len(s) >= 1 /\ \A i \in 1..Len(s) : IsAlnumHyphen(s[i]) \/ s[i] = 95

\* z.url(): a scheme of letters followed by ':'.
IsUrl(s) ==
  LET colon == IndexOf(s, 58)
  IN  colon >= 2 /\ \A i \in 1..(colon - 1) : IsUpper(s[i]) \/ IsLower(s[i])

\* z.union([z.hash("sha1"), z.hash("sha256")])
IsHash(s) == Len(s) \in {40, 64} /\ \A i \in 1..Len(s) : IsHex(s[i])

\* ------------------------------------------------------ schema: objects

\* A field that is absent (undefined in the source).
Undefined == [defined |-> FALSE, str |-> <<>>]
Str(s) == [defined |-> TRUE, str |-> s]

WidgetSchema(w) ==
  /\ SEMVER_REGEX(w.version)
  /\ IsUrl(w.repo)
  /\ IsHash(w.commit)

WidgetManifestSchema(m) ==
  /\ Len(m.name) <= 80
  /\ SEMVER_REGEX(m.version)
  /\ Len(m.authors) >= 1
  /\ Len(m.description) <= 160
  /\ IsUrl(m.homepage)

\* handle and id are z.string(): any string passes.
PublishPlanEntrySchema(e) ==
  /\ WidgetSchema(e.widget)
  /\ WidgetManifestSchema(e.manifest)

PublishPlanSchema(plan) ==
  \A i \in 1..Len(plan) : PublishPlanEntrySchema(plan[i])

\* z.iso.datetime() on the model's timestamps: 'T' followed by digits.
IsIsoDatetime(s) ==
  Len(s) >= 2 /\ s[1] = 84 /\ \A i \in 2..Len(s) : IsDigit(s[i])

RegistryEntryReleaseSchema(r) == IsIsoDatetime(r.publishedAt)

RegistryEntrySchema(e) ==
  /\ Len(e.authors) >= 1
  /\ Len(e.releases) >= 1
  /\ \A i \in 1..Len(e.releases) : RegistryEntryReleaseSchema(e.releases[i])

RegistryIndexSchema(ix) ==
  /\ IsIsoDatetime(ix.generatedAt)
  /\ \A i \in 1..Len(ix.widgets) : RegistryEntrySchema(ix.widgets[i])

\* --------------------------------------------------------------- time

RECURSIVE Digits(_)
\* Decimal digits of a natural number.
Digits(n) == IF n < 10 THEN <<48 + n>> ELSE Digits(n \div 10) \o <<48 + (n % 10)>>

\* new Date().toISOString() of a clock reading: 'T' followed by the reading.
ToISOString(t) == <<84>> \o Digits(t)

\* ------------------------------------------------------ lib/oras.ts: push

ImagePrefix == <<111, 114, 103, 46, 111, 112, 101, 110, 99, 111, 110, 116, 97,
                 105, 110, 101, 114, 115, 46, 105, 109, 97, 103, 101, 46>>
KeyCreated == <<99, 114, 101, 97, 116, 101, 100>>
ArgAnnotation == <<45, 45, 97, 110, 110, 111, 116, 97, 116, 105, 111, 110>>
ArgOciLayout == <<45, 45, 111, 99, 105, 45, 108, 97, 121, 111, 117, 116>>

RECURSIVE JsonEscape(_)
\* The body of a JSON string: '"' and '\' are escaped.
JsonEscape(s) ==
  IF s = <<>> THEN <<>>
  ELSE (IF Head(s) \in {34, 92} THEN <<92, Head(s)>> ELSE <<Head(s)>>)
       \o JsonEscape(Tail(s))

RECURSIVE JsonItems(_)
JsonItems(a) ==
  IF a = <<>> THEN <<>>
  ELSE <<34>> \o JsonEscape(Head(a)) \o <<34>>
       \o (IF Len(a) > 1 THEN <<44>> ELSE <<>>) \o JsonItems(Tail(a))

\* JSON.stringify of an array of strings.
JsonStringify(a) == <<91>> \o JsonItems(a) \o <<93>>

\* The standardAnnotations object, in insertion order.
standardAnnotations(widget, manifest) ==
  << [key |-> KeyCreated, value |-> Undefined],
     [key |-> <<97, 117, 116, 104, 111, 114, 115>>,
      value |-> Str(JsonStringify(manifest.authors))],
     [key |-> <<117, 114, 108>>, value |-> Str(manifest.homepage)],
     [key |-> <<115, 111, 117, 114, 99, 101>>,
      value |-> Str(Concat(<<widget.repo, <<64>>, widget.commit>>))],
     [key |-> <<118, 101, 114, 115, 105, 111, 110>>, value |-> Str(widget.version)],
     [key |-> <<114, 101, 118, 105, 115, 105, 111, 110>>, value |-> Str(widget.commit)],
     [key |-> <<118, 101, 110, 100, 111, 114>>,
      value |-> Str(<<68, 101, 115, 107, 117, 108, 112, 116>>)],
     [key |-> <<108, 105, 99, 101, 110, 115, 101, 115>>, value |-> Str(manifest.license)],
     [key |-> <<116, 105, 116, 108, 101>>, value |-> Str(manifest.name)],
     [key |-> <<100, 101, 115, 99, 114, 105, 112, 116, 105, 111, 110>>,
      value |-> Str(manifest.description)] >>

RECURSIVE AnnotationArgs(_)
\* for (const [key, value] of Object.entries(standardAnnotations)):
\* one "--annotation", "org.opencontainers.image.<key>=<value>" pair for
\* every value that is not undefined.
AnnotationArgs(anns) ==
  IF anns = <<>> THEN <<>>
  ELSE (IF Head(anns).value # Undefined
        THEN <<ArgAnnotation,
               Concat(<<ImagePrefix, Head(anns).key, <<61>>, Head(anns).value.str>>)>>
        ELSE <<>>)
       \o AnnotationArgs(Tail(anns))

\* `${dst}:v${manifest.version}`
PushTag(dst, manifest) == Concat(<<dst, <<58, 118>>, manifest.version>>)

\* The argument vector handed to the oras executable.
PushArgs(dst, widget, manifest, dryRun) ==
  << <<112, 117, 115, 104>>,
     <<45, 45, 97, 114, 116, 105, 102, 97, 99, 116, 45, 116, 121, 112, 101>>,
     <<97, 112, 112, 108, 105, 99, 97, 116, 105, 111, 110, 47, 118, 110, 100, 46,
       100, 101, 115, 107, 117, 108, 112, 116, 46, 119, 105, 100, 103, 101, 116,
       46, 118, 49>> >>
  \o (IF dryRun THEN <<ArgOciLayout>> ELSE <<>>)
  \o AnnotationArgs(standardAnnotations(widget, manifest))
  \o << PushTag(dst, manifest),
        <<46, 47>>,
        <<45, 45, 110, 111, 45, 116, 116, 121>>,
        <<45, 45, 102, 111, 114, 109, 97, 116>>,
        <<106, 115, 111, 110>> >>

\* --------------------------------------------- publish: sort comparator

\* Primary collation weight of a character under the default locale:
\* punctuation before digits before letters, letters without regard to case.
PrimaryWeight(c) ==
  IF IsLower(c) THEN 200 + (c - 97)
  ELSE IF IsUpper(c) THEN 200 + (c - 65)
  ELSE IF IsDigit(c) THEN 100 + (c - 48)
  ELSE IF c = 95 THEN 1
  ELSE IF c = 45 THEN 2
  ELSE IF c = 47 THEN 3
  ELSE 10 + (c % 64)

\* Tertiary (case) weight: lower case before upper case.
CaseWeight(c) == IF IsUpper(c) THEN 1 ELSE 0

RECURSIVE LexCompare(_, _)
\* Lexicographic three-way comparison of two sequences of numbers; a proper
\* prefix sorts first.
LexCompare(x, y) ==
  IF x = <<>> /\ y = <<>> THEN 0
  ELSE IF x = <<>> THEN -1
  ELSE IF y = <<>> THEN 1
  ELSE IF Head(x) < Head(y) THEN -1
  ELSE IF Head(x) > Head(y) THEN 1
  ELSE LexCompare(Tail(x), Tail(y))

\* Comparison of the strings' code units (the < operator on strings).
CodeUnitCompare(x, y) == LexCompare(x, y)

\* String.prototype.localeCompare: primary weights of the whole strings
\* first, case as the tie-break.
localeCompare(x, y) ==
  LET p == LexCompare([i \in 1..Len(x) |-> PrimaryWeight(x[i])],
                      [i \in 1..Len(y) |-> PrimaryWeight(y[i])])
  IN  IF p # 0 THEN p
      ELSE LexCompare([i \in 1..Len(x) |-> CaseWeight(x[i])],
                      [i \in 1..Len(y) |-> CaseWeight(y[i])])

\* A comparator without the id tie-break.
CompareEntriesHandleOnly(a, b) == localeCompare(a.handle, b.handle)

\* The comparator passed to registryIndex.widgets.sort.
CompareEntries(a, b) ==
  IF a.handle # b.handle THEN localeCompare(a.handle, b.handle)
  ELSE localeCompare(a.id, b.id)

\* Insert x behind the last element that does not sort after it.
InsertSorted(sorted, x) ==
  LET after == {i \in 1..Len(sorted) : CompareEntries(sorted[i], x) > 0}
      pos   == IF after = {} THEN Len(sorted) + 1
               ELSE CHOOSE i \in after : \A j \in after : i <= j
  IN  SubSeq(sorted, 1, pos - 1) \o <<x>> \o SubSeq(sorted, pos, Len(sorted))

RECURSIVE SortWidgets(_)
\* Array.prototype.sort (stable) with CompareEntries.
SortWidgets(ws) ==
  IF ws = <<>> THEN <<>>
  ELSE InsertSorted(SortWidgets(SubSeq(ws, 1, Len(ws) - 1)), ws[Len(ws)])

\* ------------------------------------------------ publish: registry merge

\* A find whose predicate compares the entry's id with the handle.
FindEntryTypo(widgets, handle, id) ==
  LET hits == {k \in 1..Len(widgets) :
                 widgets[k].handle = handle /\ widgets[k].id = handle}
  IN  IF hits = {} THEN 0 ELSE CHOOSE k \in hits : \A j \in hits : k <= j

\* registryIndex.widgets.find((e) => e.handle === handle && e.id === id):
\* position of the first match, 0 when there is none.
FindEntry(widgets, handle, id) ==
  LET hits == {k \in 1..Len(widgets) :
                 widgets[k].handle = handle /\ widgets[k].id = id}
  IN  IF hits = {} THEN 0 ELSE CHOOSE k \in hits : \A j \in hits : k <= j

releaseData(u) ==
  [version |-> u.widget.version, publishedAt |-> u.publishedAt, digest |-> u.digest]

\* A merge step that appends the release behind the earlier ones.
ApplyUpdateAppend(widgets, u) ==
  LET k == FindEntry(widgets, u.handle, u.id)
  IN  IF k = 0
      THEN Append(widgets,
                  [handle |-> u.handle, id |-> u.id, name |-> u.manifest.name,
                   authors |-> u.manifest.authors,
                   description |-> u.manifest.description,
                   releases |-> <<releaseData(u)>>])
      ELSE [widgets EXCEPT ![k] =
              [@ EXCEPT !.name = u.manifest.name,
                        !.authors = u.manifest.authors,
                        !.description = u.manifest.description,
                        !.releases = Append(@, releaseData(u))]]

\* A merge step that replaces the releases of an existing entry.
ApplyUpdateReplace(widgets, u) ==
  LET k == FindEntry(widgets, u.handle, u.id)
  IN  IF k = 0
      THEN Append(widgets,
                  [handle |-> u.handle, id |-> u.id, name |-> u.manifest.name,
                   authors |-> u.manifest.authors,
                   description |-> u.manifest.description,
                   releases |-> <<releaseData(u)>>])
      ELSE [widgets EXCEPT ![k] =
              [@ EXCEPT !.name = u.manifest.name,
                        !.authors = u.manifest.authors,
                        !.description = u.manifest.description,
                        !.releases = <<releaseData(u)>>]]

\* One iteration of the merge loop: push a new entry, or overwrite the
\* descriptive fields and unshift the release.
ApplyUpdate(widgets, u) ==
  LET k == FindEntry(widgets, u.handle, u.id)
  IN  IF k = 0
      THEN Append(widgets,
                  [handle |-> u.handle, id |-> u.id, name |-> u.manifest.name,
                   authors |-> u.manifest.authors,
                   description |-> u.manifest.description,
                   releases |-> <<releaseData(u)>>])
      ELSE [widgets EXCEPT ![k] =
              [@ EXCEPT !.name = u.manifest.name,
                        !.authors = u.manifest.authors,
                        !.description = u.manifest.description,
                        !.releases = <<releaseData(u)>> \o @]]

RECURSIVE MergeUpdates(_, _)
\* for (const it of registryUpdatePlan) { ... }
MergeUpdates(widgets, updates) ==
  IF updates = <<>> THEN widgets
  ELSE MergeUpdates(ApplyUpdate(widgets, Head(updates)), Tail(updates))

\* pushResult.annotations?.["org.opencontainers.image.created"]
CreatedAt(pushResult) ==
  IF pushResult.annotations.present THEN pushResult.annotations.created
  ELSE Undefined

\* A publishedAt that falls back to the time the pipeline started.
PublishedAtStart(pushResult, now) ==
  IF CreatedAt(pushResult) # Undefined THEN CreatedAt(pushResult).str
  ELSE ToISOString(1)

\* let publishedAt = new Date().toISOString(); overridden by createdAt.
PublishedAt(pushResult, now) ==
  IF CreatedAt(pushResult) # Undefined THEN CreatedAt(pushResult).str
  ELSE ToISOString(now)

\* `${GHCR_REPO_PREFIX}/${handle}/${id}`
Remote(prefix, handle, id) == Concat(<<prefix, <<47>>, handle, <<47>>, id>>)

\* ------------------------------------------------------------- inputs

GHCR_REPO_PREFIX == <<103>>

hA == <<97>>
hB == <<98>>
hUpperB == <<66>>
id1 == <<49>>
id2 == <<50>>
idSlash == <<97, 47, 98>>

v100 == <<49, 46, 48, 46, 48>>
v110 == <<49, 46, 49, 46, 48>>
v200 == <<50, 46, 48, 46, 48>>
v12 == <<49, 46, 50>>
sha1 == [k \in 1..40 |-> 97]
digest1 == <<115, 104, 97, 50, 53, 54, 58, 100, 49>>
digest2 == <<115, 104, 97, 50, 53, 54, 58, 100, 50>>

MkWidget(version) ==
  [version |-> version, repo |-> <<104, 58, 114>>, commit |-> sha1, path |-> Undefined]

MkManifest(name, version, license, description) ==
  [name |-> name, version |-> version, authors |-> << <<65>> >>,
   license |-> license, description |-> description, homepage |-> <<104, 58, 120>>]

mClock == MkManifest(<<67, 108, 111, 99, 107>>, v100, <<77, 73, 84>>, <<65, 32, 99>>)
mClock2 == MkManifest(<<67, 108, 111, 99, 107, 50>>, v110, <<77, 73, 84>>, <<66>>)
mBare == MkManifest(<<67>>, v100, <<>>, <<>>)

MkEntry(handle, id, widget, manifest) ==
  [handle |-> handle, id |-> id, widget |-> widget, manifest |-> manifest]

\* The lines a plan file is made of.
PlanEntries ==
  { MkEntry(hA, id1, MkWidget(v100), mClock),
    MkEntry(hA, id1, MkWidget(v110), mClock2),
    MkEntry(hA, id2, MkWidget(v100), mClock),
    MkEntry(hB, id1, MkWidget(v100), mClock),
    MkEntry(hUpperB, id1, MkWidget(v100), mClock),
    MkEntry(hA, idSlash, MkWidget(v100), mClock),
    MkEntry(hA, id1, MkWidget(v200), mClock),
    MkEntry(hB, id1, MkWidget(v100), mBare),
    MkEntry(hA, id1, MkWidget(v12), mClock) }

PlanFiles == UNION {[1..n -> PlanEntries] : n \in 0..MaxPlan}

\* What the oras executable may print: no annotations, annotations with the
\* created key, annotations without it.
OrasOutputs ==
  { [digest |-> digest1, annotations |-> [present |-> FALSE, created |-> Undefined]],
    [digest |-> digest2, annotations |-> [present |-> TRUE, created |-> Str(ToISOString(0))]],
    [digest |-> digest1, annotations |-> [present |-> TRUE, created |-> Undefined]] }

MkRelease(version, digest) ==
  [version |-> version, publishedAt |-> ToISOString(0), digest |-> digest]

MkRegistryEntry(handle, id, releases) ==
  [handle |-> handle, id |-> id, name |-> <<79, 108, 100>>, authors |-> << <<90>> >>,
   description |-> <<111, 108, 100>>, releases |-> releases]

\* Entries of an index written by earlier runs.
StoredEntries ==
  { MkRegistryEntry(hA, id1, <<MkRelease(<<48, 46, 57, 46, 48>>, digest1)>>),
    MkRegistryEntry(hB, id1, <<MkRelease(<<48, 46, 50, 46, 48>>, digest2),
                               MkRelease(<<48, 46, 49, 46, 48>>, digest1)>>) }

RECURSIVE SeqOfSet(_)
SeqOfSet(S) ==
  IF S = {} THEN <<>>
  ELSE LET x == CHOOSE x \in S : TRUE IN <<x>> \o SeqOfSet(S \ {x})

MkIndex(widgets) == [api |-> 1, generatedAt |-> ToISOString(0), widgets |-> widgets]

NoIndex == [api |-> 0, generatedAt |-> <<>>, widgets |-> <<>>]

\* index.json before the run: absent, written by an earlier run (sorted, as
\* every run leaves it), or present but failing the schema (no release).
IndexFiles ==
  {[exists |-> FALSE, content |-> NoIndex]}
  \cup {[exists |-> TRUE, content |-> MkIndex(SortWidgets(SeqOfSet(S)))] :
          S \in SUBSET StoredEntries}
  \cup {[exists |-> TRUE, content |-> MkIndex(<<MkRegistryEntry(hA, id1, <<>>)>>)]}

\* ---------------------------------------------------------------- state

VARIABLES
  pc,                  \* "parse", "publish", "done" or "aborted"
  planFile,            \* the lines of PUBLISH_PLAN_PATH
  publishPlan,         \* the parsed plan
  i,                   \* position of the publish loop in publishPlan
  registryUpdatePlan,  \* the accumulated updates
  clock,               \* the wall clock
  indexFile,           \* REGISTRY_DIR/index.json
  registryIndex,       \* the index held in memory
  orasCalls,           \* the argument vectors the oras executable was run with
  observed,            \* per update: the created annotation and the clock read
  indexBefore,         \* index.json as the run found it
  indexWrites          \* writes of index.json made by the run

vars == <<pc, planFile, publishPlan, i, registryUpdatePlan, clock, indexFile,
          registryIndex, orasCalls, observed, indexBefore, indexWrites>>

Init ==
  /\ pc = "parse"
  /\ planFile \in PlanFiles
  /\ publishPlan = <<>>
  /\ i = 1
  /\ registryUpdatePlan = <<>>
  /\ clock = 1
  /\ indexFile \in IndexFiles
  /\ registryIndex = NoIndex
  /\ orasCalls = <<>>
  /\ observed = <<>>
  /\ indexBefore = indexFile
  /\ indexWrites = 0

\* parseRegistryIndex: readFile throws when index.json is absent, the schema
\* throws on a malformed index.
CanParseRegistryIndex(file) == file.exists /\ RegistryIndexSchema(file.content)

\* The index after the merge loop and the sort.
MergedIndex(loaded, updates, now) ==
  [api |-> 1, generatedAt |-> ToISOString(now),
   widgets |-> SortWidgets(MergeUpdates(loaded.widgets, updates))]

\* const publishPlan = await parsePublishPlan(PUBLISH_PLAN_PATH): a plan that
\* fails the schema throws and ends the run.
ParsePlan ==
  /\ pc = "parse"
  /\ IF PublishPlanSchema(planFile)
     THEN publishPlan' = planFile /\ pc' = "publish"
     ELSE publishPlan' = publishPlan /\ pc' = "aborted"
  /\ UNCHANGED <<planFile, i, registryUpdatePlan, clock, indexFile, registryIndex,
                 orasCalls, observed, indexBefore, indexWrites>>

\* git.checkoutRepoAtCommit throws.
CheckoutFails ==
  /\ pc = "publish"
  /\ i <= Len(publishPlan)
  /\ pc' = "aborted"
  /\ UNCHANGED <<planFile, publishPlan, i, registryUpdatePlan, clock, indexFile,
                 registryIndex, orasCalls, observed, indexBefore, indexWrites>>

\* The oras call of the current entry.
OrasCall(it) ==
  PushArgs(Remote(GHCR_REPO_PREFIX, it.handle, it.id), it.widget, it.manifest, FALSE)

\* oras.push throws: the executable fails or prints what the schema rejects.
PushFails ==
  /\ pc = "publish"
  /\ i <= Len(publishPlan)
  /\ orasCalls' = Append(orasCalls, OrasCall(publishPlan[i]))
  /\ clock' = clock + 1
  /\ pc' = "aborted"
  /\ UNCHANGED <<planFile, publishPlan, i, registryUpdatePlan, indexFile,
                 registryIndex, observed, indexBefore, indexWrites>>

\* A publish loop that persists the index after every entry.
PublishEntryWritesIndex ==
  /\ pc = "publish"
  /\ i <= Len(publishPlan)
  /\ \E pushResult \in OrasOutputs :
       LET it  == publishPlan[i]
           now == clock + 1
       IN  /\ orasCalls' = Append(orasCalls, OrasCall(it))
           /\ clock' = now
           /\ registryUpdatePlan' =
                Append(registryUpdatePlan,
                       [handle |-> it.handle, id |-> it.id, widget |-> it.widget,
                        manifest |-> it.manifest,
                        publishedAt |-> PublishedAt(pushResult, now),
                        digest |-> pushResult.digest])
           /\ observed' = Append(observed,
                                 [createdAt |-> CreatedAt(pushResult), now |-> now])
  /\ i' = i + 1
  /\ IF CanParseRegistryIndex(indexFile)
     THEN /\ registryIndex' = MergedIndex(indexFile.content,
                                          <<registryUpdatePlan'[i]>>, clock')
          /\ indexFile' = [exists |-> TRUE, content |-> registryIndex']
          /\ indexWrites' = indexWrites + 1
     ELSE UNCHANGED <<registryIndex, indexFile, indexWrites>>
  /\ UNCHANGED <<pc, planFile, publishPlan, indexBefore>>

\* One iteration of the publish loop that succeeds: checkout, push, read the
\* clock, accumulate the update.  The push takes one unit of time.
PublishEntry ==
  /\ pc = "publish"
  /\ i <= Len(publishPlan)
  /\ \E pushResult \in OrasOutputs :
       LET it  == publishPlan[i]
           now == clock + 1
       IN  /\ orasCalls' = Append(orasCalls, OrasCall(it))
           /\ clock' = now
           /\ registryUpdatePlan' =
                Append(registryUpdatePlan,
                       [handle |-> it.handle, id |-> it.id, widget |-> it.widget,
                        manifest |-> it.manifest,
                        publishedAt |-> PublishedAt(pushResult, now),
                        digest |-> pushResult.digest])
           /\ observed' = Append(observed,
                                 [createdAt |-> CreatedAt(pushResult), now |-> now])
  /\ i' = i + 1
  /\ UNCHANGED <<pc, planFile, publishPlan, indexFile, registryIndex, indexBefore,
                 indexWrites>>

\* Everything after the publish loop: load the index, merge the updates,
\* sort, write index.json.
UpdateRegistryIndex ==
  /\ pc = "publish"
  /\ i > Len(publishPlan)
  /\ IF CanParseRegistryIndex(indexFile)
     THEN /\ registryIndex' = MergedIndex(indexFile.content, registryUpdatePlan, clock)
          /\ indexFile' = [exists |-> TRUE, content |-> registryIndex']
          /\ indexWrites' = indexWrites + 1
          /\ pc' = "done"
     ELSE /\ pc' = "aborted"
          /\ UNCHANGED <<registryIndex, indexFile, indexWrites>>
  /\ UNCHANGED <<planFile, publishPlan, i, registryUpdatePlan, clock, orasCalls,
                 observed, indexBefore>>

Next ==
  \/ ParsePlan
  \/ CheckoutFails
  \/ PushFails
  \/ PublishEntry
  \/ UpdateRegistryIndex

Spec == Init /\ [][Next]_vars

\* ------------------------------------------------------------- properties

KeyOf(e) == <<e.handle, e.id>>
KeysOf(ws) == [k \in 1..Len(ws) |-> KeyOf(ws[k])]

RECURSIVE TotalReleases(_)
TotalReleases(ws) ==
  IF ws = <<>> THEN 0 ELSE Len(Head(ws).releases) + TotalReleases(Tail(ws))

\* The widgets the merge loop leaves in memory before the sort.
MergedBeforeSort == MergeUpdates(indexBefore.content.widgets, registryUpdatePlan)

\* C1: the index file is written at most once, and only after every plan
\* entry has been checked out and pushed; a run that aborts (validation,
\* checkout or push failing at any entry) has written nothing, so the index
\* file is as the run found it, whatever was pushed before the failure.
C1_AllOrNothing ==
  /\ indexWrites <= 1
  /\ (indexWrites = 1 =>
        /\ pc = "done"
        /\ publishPlan = planFile
        /\ Len(registryUpdatePlan) = Len(publishPlan)
        /\ Len(orasCalls) = Len(publishPlan))
  /\ (pc = "aborted" => indexWrites = 0)
  /\ (indexWrites = 0 => indexFile = indexBefore)

\* A run that aborted at its second entry, the first one already pushed,
\* with an index file present.
C1_Witness ==
  /\ pc = "aborted"
  /\ Len(registryUpdatePlan) = 1
  /\ Len(publishPlan) = 2
  /\ indexBefore.exists
  /\ indexFile = indexBefore

Unique(ws) ==
  \A j, k \in 1..Len(ws) : j # k => KeyOf(ws[j]) # KeyOf(ws[k])

\* C2: when the loaded index has pairwise distinct (handle, id), the written
\* index has no two entries with the same (handle, id), also for plans that
\* name the same (handle, id) more than once.
C2_UniqueKeys ==
  (pc = "done" /\ Unique(indexBefore.content.widgets))
    => Unique(indexFile.content.widgets)

\* A completed run whose plan names the same (handle, id) twice, the pair
\* not being in the loaded index.
C2_Witness ==
  /\ pc = "done"
  /\ Len(publishPlan) = 2
  /\ KeyOf(publishPlan[1]) = KeyOf(publishPlan[2])
  /\ FindEntry(indexBefore.content.widgets, publishPlan[1].handle, publishPlan[1].id) = 0
  /\ Unique(indexFile.content.widgets)

\* Occurrences of x in ws.
Count(ws, x) == Cardinality({k \in 1..Len(ws) : ws[k] = x})

SamePairs(ws, vs) ==
  /\ Len(ws) = Len(vs)
  /\ \A k \in 1..Len(ws) : Count(ws, ws[k]) = Count(vs, ws[k])

ExampleUnsorted == << <<hB, id1>>, <<hA, id2>>, <<hA, id1>> >>
ExampleSorted == << <<hA, id1>>, <<hA, id2>>, <<hB, id1>> >>

\* C3 (as stated): the written widgets list is ascending by (handle, id)
\* under comparison of the strings' code units.
C3_SortedByCodeUnits ==
  pc = "done" =>
    \A k \in 1..(Len(indexFile.content.widgets) - 1) :
      LET a == indexFile.content.widgets[k]
          b == indexFile.content.widgets[k + 1]
      IN  IF a.handle # b.handle THEN CodeUnitCompare(a.handle, b.handle) < 0
          ELSE CodeUnitCompare(a.id, b.id) <= 0

\* C3 (amended): the written widgets list is ascending by (handle, id) under
\* localeCompare, handle first and id as the tie-break; the sort neither adds
\* nor removes entries; the entries b/1, a/2, a/1 are written as a/1, a/2, b/1.
C3_SortedByLocale ==
  pc = "done" =>
    /\ \A k \in 1..(Len(indexFile.content.widgets) - 1) :
         LET a == indexFile.content.widgets[k]
             b == indexFile.content.widgets[k + 1]
         IN  IF a.handle # b.handle THEN localeCompare(a.handle, b.handle) < 0
             ELSE localeCompare(a.id, b.id) <= 0
    /\ SamePairs(indexFile.content.widgets, MergedBeforeSort)
    /\ (KeysOf(MergedBeforeSort) = ExampleUnsorted
          => KeysOf(indexFile.content.widgets) = ExampleSorted)

\* A completed run whose merge left b/1, a/2, a/1 in that order.
C3_Witness ==
  /\ pc = "done"
  /\ KeysOf(MergedBeforeSort) = ExampleUnsorted
  /\ KeysOf(indexFile.content.widgets) = ExampleSorted

\* What C4 says of one merge step from before to after.
MergeStepOK(before, u, after) ==
  LET k   == FindEntry(before, u.handle, u.id)
      rel == [version |-> u.widget.version, publishedAt |-> u.publishedAt,
              digest |-> u.digest]
  IN  IF \A j \in 1..Len(before) : KeyOf(before[j]) # <<u.handle, u.id>>
      THEN /\ Len(after) = Len(before) + 1
           /\ SubSeq(after, 1, Len(before)) = before
           /\ after[Len(after)] =
                [handle |-> u.handle, id |-> u.id, name |-> u.manifest.name,
                 authors |-> u.manifest.authors,
                 description |-> u.manifest.description, releases |-> <<rel>>]
      ELSE /\ Len(after) = Len(before)
           /\ \A j \in 1..Len(before) : j # k => after[j] = before[j]
           /\ KeyOf(after[k]) = KeyOf(before[k])
           /\ after[k].name = u.manifest.name
           /\ after[k].authors = u.manifest.authors
           /\ after[k].description = u.manifest.description
           /\ Len(after[k].releases) = Len(before[k].releases) + 1
           /\ after[k].releases[1] = rel
           /\ Tail(after[k].releases) = before[k].releases

\* C4: each merge step either creates an entry with the manifest's name,
\* authors and description and exactly one release, or overwrites those
\* fields of the existing entry and puts the new release at the front of
\* its releases; the written index is the sorted result of these steps.
C4_MergeStep ==
  pc = "done" =>
    /\ \A k \in 1..Len(registryUpdatePlan) :
         LET before == MergeUpdates(indexBefore.content.widgets,
                                    SubSeq(registryUpdatePlan, 1, k - 1))
             after  == MergeUpdates(indexBefore.content.widgets,
                                    SubSeq(registryUpdatePlan, 1, k))
         IN  MergeStepOK(before, registryUpdatePlan[k], after)
    /\ SamePairs(indexFile.content.widgets, MergedBeforeSort)

\* A completed run that published a release of an entry the loaded index
\* held with one release and other descriptive fields: it has two releases.
C4_Witness ==
  /\ pc = "done"
  /\ \E j \in 1..Len(indexBefore.content.widgets) :
       \E k \in 1..Len(indexFile.content.widgets) :
         LET old == indexBefore.content.widgets[j]
             new == indexFile.content.widgets[k]
         IN  /\ KeyOf(old) = KeyOf(new)
             /\ Len(old.releases) = 1
             /\ Len(new.releases) = 2
             /\ new.releases[2] = old.releases[1]
             /\ new.name # old.name
  /\ \E k \in 1..Len(indexFile.content.widgets) :
       FindEntry(indexBefore.content.widgets, indexFile.content.widgets[k].handle,
                 indexFile.content.widgets[k].id) = 0

\* C5 (as stated): a plan with an entry whose id has a character outside
\* [a-zA-Z0-9-_] fails validation, so the run halts with nothing checked out
\* or pushed.
C5_UnsafeIdRejected ==
  ((\E k \in 1..Len(planFile) : ~SAFE_ID_REGEX(planFile[k].id)) /\ pc # "parse")
    => (pc = "aborted" /\ publishPlan = <<>> /\ orasCalls = <<>>)

\* C6 (as stated): with no index file before the run, a run whose plan
\* entries were all pushed ends by writing an index whose widgets are the
\* entries created from the plan.
C6_AbsentIndexStartsEmpty ==
  ( /\ ~indexBefore.exists
    /\ pc \in {"done", "aborted"}
    /\ PublishPlanSchema(planFile)
    /\ Len(registryUpdatePlan) = Len(planFile) )
    => ( /\ pc = "done"
         /\ indexFile.exists
         /\ indexFile.content.widgets =
              SortWidgets(MergeUpdates(<<>>, registryUpdatePlan)) )

\* C7: the publishedAt of every update is the created annotation of its
\* push result when there is one, and otherwise the clock as read in that
\* entry's own step; the releases of the written index carry these values.
C7_PublishedAt ==
  /\ Len(observed) = Len(registryUpdatePlan)
  /\ \A k \in 1..Len(registryUpdatePlan) :
       LET u == registryUpdatePlan[k]
       IN  /\ u.publishedAt =
                IF observed[k].createdAt # Undefined THEN observed[k].createdAt.str
                ELSE ToISOString(observed[k].now)
           /\ pc = "done" =>
                \E j \in 1..Len(indexFile.content.widgets) :
                  LET e == indexFile.content.widgets[j]
                  IN  /\ KeyOf(e) = <<u.handle, u.id>>
                      /\ \E r \in 1..Len(e.releases) :
                           /\ e.releases[r].publishedAt = u.publishedAt
                           /\ e.releases[r].digest = u.digest

\* A completed run with one push that reported the annotation and one that
\* did not, the latter's publishedAt being neither the start time nor
\* generatedAt.
C7_Witness ==
  /\ pc = "done"
  /\ \E k \in 1..Len(registryUpdatePlan) : observed[k].createdAt # Undefined
  /\ \E k \in 1..Len(registryUpdatePlan) :
       /\ observed[k].createdAt = Undefined
       /\ registryUpdatePlan[k].publishedAt = ToISOString(observed[k].now)
       /\ registryUpdatePlan[k].publishedAt # ToISOString(1)
       /\ registryUpdatePlan[k].publishedAt # indexFile.content.generatedAt

\* The text behind the first '=' of an --annotation argument.
AnnotationValue(arg) == SubSeq(arg, IndexOf(arg, 61) + 1, Len(arg))
AnnotationKey(arg) == SubSeq(arg, 1, IndexOf(arg, 61) - 1)

\* C8 (as stated): no --annotation argument passed to oras has an empty
\* value, and org.opencontainers.image.created is never passed.
C8_NoEmptyAnnotation ==
  \A c \in 1..Len(orasCalls) :
    \A j \in 1..(Len(orasCalls[c]) - 1) :
      orasCalls[c][j] = ArgAnnotation =>
        /\ AnnotationValue(orasCalls[c][j + 1]) # <<>>
        /\ AnnotationKey(orasCalls[c][j + 1]) # ImagePrefix \o KeyCreated

IsSuffix(old, new) ==
  /\ Len(old) <= Len(new)
  /\ SubSeq(new, Len(new) - Len(old) + 1, Len(new)) = old

\* C9: every entry of the loaded index is in the written index, its earlier
\* releases in the same order behind the releases this run added, and the
\* written index has as many releases as the loaded index plus one per plan
\* entry.
C9_NoDeletion ==
  pc = "done" =>
    /\ \A j \in 1..Len(indexBefore.content.widgets) :
         LET old == indexBefore.content.widgets[j]
         IN  \E k \in 1..Len(indexFile.content.widgets) :
               LET new == indexFile.content.widgets[k]
               IN  /\ KeyOf(new) = KeyOf(old)
                   /\ IsSuffix(old.releases, new.releases)
                   /\ \A r \in 1..(Len(new.releases) - Len(old.releases)) :
                        \E u \in 1..Len(registryUpdatePlan) :
                          new.releases[r] = releaseData(registryUpdatePlan[u])
    /\ TotalReleases(indexFile.content.widgets)
         = TotalReleases(indexBefore.content.widgets) + Len(publishPlan)

\* A completed run of a two-entry plan that published a release of an entry
\* the loaded index held with two releases.
C9_Witness ==
  /\ pc = "done"
  /\ Len(publishPlan) = 2
  /\ \E j \in 1..Len(indexBefore.content.widgets) :
       \E k \in 1..Len(indexFile.content.widgets) :
         /\ KeyOf(indexBefore.content.widgets[j]) = KeyOf(indexFile.content.widgets[k])
         /\ Len(indexBefore.content.widgets[j].releases) = 2
         /\ Len(indexFile.content.widgets[k].releases) > 2

\* C10 (as stated): the version of every release a run records is the
\* version of the tag v<version> its artifact was pushed under.
C10_ReleaseVersionIsTag ==
  \A k \in 1..Len(registryUpdatePlan) :
    LET u    == registryUpdatePlan[k]
        call == orasCalls[k]
    IN  call[Len(call) - 4] =
          Concat(<<Remote(GHCR_REPO_PREFIX, u.handle, u.id), <<58, 118>>,
                   releaseData(u).version>>)

====
